---- MODULE Spec2Model ----
(***************************************************************************)
(* A model of src/main.py: the staged validation-and-projection pipeline   *)
(* (main and the stage functions it calls) and the stand-alone pandas      *)
(* deduplication helper remove_composite_duplicates.                       *)
(*                                                                         *)
(* Data representation                                                     *)
(*   - a record (one CSV row) is a function from field names to values;    *)
(*   - a DuckDB table is a sequence of [rowid, data] in ROWID order;       *)
(*   - a pandas DataFrame is a sequence of [index, data] in row order,     *)
(*     index being the label the frame keeps through filtering;            *)
(*   - a date value is represented by the age in whole years it implies    *)
(*     on the day of the run, which is all that rule age_gte reads of it.  *)
(***************************************************************************)
EXTENDS Integers, Sequences, FiniteSets, TLC

VARIABLES
    pc,                     \* position of main (or of the function under check)
    config,                 \* the loaded YAML configuration and the source file's presence
    outcome,                \* how main ended: "", "completed", "returned", "caught", "propagated"
    raised,                 \* the exception raised, <<type, what it names>>, or <<>>
    conn,                   \* the DuckDB connection: "none", "open", "closed"
    duplicate_resolution,   \* settings.duplicate_resolution / parameter of both dedup functions
    custom_validation_mode, \* settings.custom_validation_mode
    unique_composite,       \* settings.unique_composite: sequence of composite keys
    custom_validations,     \* main's dict field -> rule, as a sequence in dict order
    projections,            \* entity_details["projections"]
    df,                     \* the DataFrame read from the source file
    valid_records,          \* first result of validate_format_with_pydantic
    schema_errors,          \* second result of validate_format_with_pydantic
    raw,                    \* table <entity>_raw
    stage,                  \* table <entity>_stage
    key_i,                  \* number of composite keys the SQL dedup loop has processed
    duplicate_rows,         \* the duplicates report of remove_duplicates_from_stage_table
    rule_i,                 \* number of dict entries the rule loop has processed
    validation_issues,      \* execute_custom_validations' local list of issues
    total_invalid_rows,     \* execute_custom_validations' local counter
    issues_returned,        \* validation_issues as received by main (<<>> until returned)
    evaluated,              \* log: the rules whose violating rows were selected, in order
    artifacts,              \* error files written: artifact name -> rows written
    relations,              \* views and tables that exist in the connection
    exported,               \* projection names exported to CSV
    summary,                \* get_projection_summary's result, <<>> until computed
    rcd_df,                 \* remove_composite_duplicates: its working DataFrame df
    removed_rows,           \* remove_composite_duplicates: its removed-rows report
    rcd_i,                  \* remove_composite_duplicates: number of keys processed
    rcd_pc                  \* remove_composite_duplicates: "idle", "loop", "returned", "raised"

cfgVars  == <<config, duplicate_resolution, custom_validation_mode, unique_composite,
              custom_validations, projections>>
mainVars == <<pc, outcome, raised, conn, df, valid_records, schema_errors, raw>>
sqlVars  == <<stage, key_i, duplicate_rows>>
ruleVars == <<rule_i, validation_issues, total_invalid_rows, issues_returned, evaluated>>
outVars  == <<artifacts, relations, exported, summary>>
rcdVars  == <<rcd_df, removed_rows, rcd_i, rcd_pc>>
vars     == <<cfgVars, mainVars, sqlVars, ruleVars, outVars, rcdVars>>

----------------------------------------------------------------------------
(* Bounds of the model. *)
MaxRows  == 3       \* rows of a table handed to the dedup functions
MaxKeys  == 2       \* composite keys in unique_composite
MaxInput == 2       \* rows of the source file read by main
MaxRules == 2       \* custom rules declared in the configuration
MaxProjections == 2 \* projections handed to the projection steps

SeqsUpTo(S, n) == UNION {[1..k -> S] : k \in 0..n}

\* The subsequence of s at the positions satisfying keep, in order.
RECURSIVE Filter(_, _)
Filter(s, keepAt) ==
    IF s = <<>> THEN <<>>
    ELSE LET n == Len(s)
             init == Filter(SubSeq(s, 1, n - 1), keepAt)
         IN IF n \in keepAt THEN Append(init, s[n]) ELSE init

----------------------------------------------------------------------------
(* Tables and frames. *)

\* conn.register + CREATE TABLE ... AS SELECT *: rows get ROWIDs 0, 1, ... in order.
MkTable(recs) == [i \in 1..Len(recs) |-> [rowid |-> i - 1, data |-> recs[i]]]

\* A DataFrame built from a list of records: RangeIndex 0, 1, ...
MkFrame(recs) == [i \in 1..Len(recs) |-> [index |-> i - 1, data |-> recs[i]]]

\* "r and q agree on every column of the composite key".
SameKey(r, q, key) == \A c \in 1..Len(key) : r.data[key[c]] = q.data[key[c]]

----------------------------------------------------------------------------
(* remove_duplicates_from_stage_table: one iteration of its loop over      *)
(* unique_composite.                                                       *)

\* COUNT(*) of r's group under GROUP BY <key>.
GroupCount(tbl, r, key) ==
    Cardinality({j \in 1..Len(tbl) : SameKey(tbl[j], r, key)})

\* Mutant of RowNumber: the row counts itself among the rows before it.
RowNumberInclusive(tbl, r, key) ==
    1 + Cardinality({j \in 1..Len(tbl) :
                        SameKey(tbl[j], r, key) /\ tbl[j].rowid <= r.rowid})

\* ROW_NUMBER() OVER (PARTITION BY <key> ORDER BY ROWID) of row r.
RowNumber(tbl, r, key) ==
    1 + Cardinality({j \in 1..Len(tbl) :
                        SameKey(tbl[j], r, key) /\ tbl[j].rowid < r.rowid})

\* WHERE ROW(<key>) IN (SELECT ROW(<key>) ... GROUP BY <key> HAVING COUNT(*) > 1)
InDuplicatedGroup(tbl, r, key) == GroupCount(tbl, r, key) > 1

\* The positions of the stage table that one pass selects and deletes.
DedupSelected(tbl, key, resolution) ==
    IF resolution = "exclude_all"
    THEN {i \in 1..Len(tbl) : InDuplicatedGroup(tbl, tbl[i], key)}
    ELSE IF resolution \in {"first", "last"}
    THEN {i \in 1..Len(tbl) : RowNumber(tbl, tbl[i], key) > 1}
    ELSE {}

\* The frame fetched by the pass's SELECT: SELECT * has no ROWID column, and for
\* first/last it has the extra column rn.
DedupDuplicates(tbl, key, resolution) ==
    LET sel == Filter(tbl, DedupSelected(tbl, key, resolution))
    IN [i \in 1..Len(sel) |->
          IF resolution = "exclude_all" THEN sel[i].data
          ELSE sel[i].data @@ ("rn" :> RowNumber(tbl, sel[i], key))]

\* The stage table after the pass's DELETE.
DedupDelete(tbl, key, resolution) ==
    Filter(tbl, (1..Len(tbl)) \ DedupSelected(tbl, key, resolution))

----------------------------------------------------------------------------
(* remove_composite_duplicates: one iteration of its loop.                 *)

\* df.duplicated(subset=key, keep=keep) at position i; keep is "first", "last"
\* or "False".
Duplicated(frame, i, key, keep) ==
    CASE keep = "first" -> \E j \in 1..(i - 1) : SameKey(frame[j], frame[i], key)
      [] keep = "last"  -> \E j \in (i + 1)..Len(frame) : SameKey(frame[j], frame[i], key)
      [] OTHER          -> \E j \in (1..Len(frame)) \ {i} : SameKey(frame[j], frame[i], key)

\* The rows appended to removed_rows by one iteration.
RcdDuplicates(frame, key, resolution) ==
    IF resolution = "exclude_all"
    THEN Filter(frame, {i \in 1..Len(frame) : Duplicated(frame, i, key, "False")})
    ELSE LET keep == IF resolution = "last" THEN "first" ELSE "last"
         IN Filter(frame, {i \in 1..Len(frame) : Duplicated(frame, i, key, keep)})

\* drop_duplicates validates keep unless the frame is empty.
RcdRaises(frame, resolution) ==
    /\ resolution \notin {"exclude_all", "first", "last"}
    /\ Len(frame) > 0

\* The frame that one iteration assigns to df.
RcdKept(frame, key, resolution) ==
    IF resolution = "exclude_all"
    THEN Filter(frame, {i \in 1..Len(frame) : ~Duplicated(frame, i, key, "False")})
    ELSE Filter(frame, {i \in 1..Len(frame) : ~Duplicated(frame, i, key, resolution)})

----------------------------------------------------------------------------
(* validate_config.                                                        *)

RequiredKeys == <<"source", "settings", "validations">>

\* "ok", or the KeyError raised, named by what is missing. c.has_entity says
\* whether the entity is a key of transformations_config, c.detail_keys are the
\* keys of its record, c.setting_keys the keys of its settings.
RECURSIVE FirstMissing(_, _)
FirstMissing(keys, present) ==
    IF keys = <<>> THEN ""
    ELSE IF Head(keys) \notin present THEN Head(keys)
    ELSE FirstMissing(Tail(keys), present)

\* Mutant of validate_config: the check of custom_validation_mode is missing.
validate_config_no_mode(c) ==
    IF ~c.has_entity THEN <<"KeyError", "entity">>
    ELSE IF FirstMissing(RequiredKeys, c.detail_keys) # ""
    THEN <<"KeyError", FirstMissing(RequiredKeys, c.detail_keys)>>
    ELSE IF "duplicate_resolution" \notin c.setting_keys
    THEN <<"KeyError", "duplicate_resolution">>
    ELSE <<"ok", "">>

validate_config(c) ==
    IF ~c.has_entity THEN <<"KeyError", "entity">>
    ELSE IF FirstMissing(RequiredKeys, c.detail_keys) # ""
    THEN <<"KeyError", FirstMissing(RequiredKeys, c.detail_keys)>>
    ELSE IF "duplicate_resolution" \notin c.setting_keys
    THEN <<"KeyError", "duplicate_resolution">>
    ELSE IF "custom_validation_mode" \notin c.setting_keys
    THEN <<"KeyError", "custom_validation_mode">>
    ELSE <<"ok", "">>

----------------------------------------------------------------------------
(* Schema validation: create_pydantic_model and                            *)
(* validate_records_with_pydantic.                                         *)

DateFields == {"birthday_on", "hired_on"}

\* A cell of the model is a number. Two numbers that are no data stand for the
\* cell read_csv found empty (NaN) and for the empty string.
NaN == -1
EmptyString == -2

\* The columns df.fillna fills with '' and with 0 (lines 58-63).
StrFilled  == {"trial_period_ends_on", "ends_on", "es_contract_observations"}
ZeroFilled == {"pt_contract_type_id"}

\* df.fillna({...}) on one record: an empty cell of a named column gets the
\* column's fill value, every other cell stays.
FillNa(rec) ==
    [f \in DOMAIN rec |->
        IF rec[f] = NaN /\ f \in StrFilled THEN EmptyString
        ELSE IF rec[f] = NaN /\ f \in ZeroFilled THEN 0
        ELSE rec[f]]

\* The function's local df after fillna: same rows, same index.
FillNaFrame(frame) ==
    [i \in 1..Len(frame) |-> [index |-> frame[i].index, data |-> FillNa(frame[i].data)]]

\* What read_csv made of the column: a column of dates or of text holds
\* strings, any other column of the model holds integers.
ColumnKind(f) == IF f \in DateFields \cup StrFilled THEN "str" ELSE "int"

\* One field of one record against its rule. A rule is a function with the key
\* "type" and, optionally, the key "min"; "min" becomes the constraint ge only
\* for int and float. A string is no int or float and an int is no string. A
\* cell left NaN is a float that is no int and no string and that no ge
\* constraint accepts.
FieldOK(f, v, rule) ==
    IF v = NaN
    THEN rule["type"] = "float" /\ "min" \notin DOMAIN rule
    ELSE IF rule["type"] \in {"int", "float"}
    THEN /\ ColumnKind(f) = "int"
         /\ ("min" \in DOMAIN rule => v >= rule["min"])
    ELSE ColumnKind(f) = "str"

\* The fields of the record that fail: a field of the model the record lacks is
\* missing, a field it has must pass its rule.
FailingFields(rec, schema) ==
    {f \in DOMAIN schema : f \notin DOMAIN rec \/ ~FieldOK(f, rec[f], schema[f])}

\* model(**record) raises ValidationError.
RecordFails(rec, schema) == FailingFields(rec, schema) # {}

\* validated_record.dict(): the fields of the model only.
ValidatedDict(rec, schema) == [f \in DOMAIN schema |-> rec[f]]

\* valid_records.append(...) over the filled df.iterrows(), then
\* pd.DataFrame(valid_records).
ValidRecords(frame, schema) ==
    LET filled == FillNaFrame(frame)
        ok == Filter(filled, {i \in 1..Len(filled) : ~RecordFails(filled[i].data, schema)})
    IN MkFrame([i \in 1..Len(ok) |-> ValidatedDict(ok[i].data, schema)])

\* Mutant of ErrorRow: the 0-based index is reported.
ErrorRowZeroBased(index) == index

\* The number reported for a failing record: index + 1.
ErrorRow(index) == index + 1

\* error_records.append({"row": index + 1, "data": ..., "errors": [...]}): the
\* data are the record of the filled df.
ErrorRecords(frame, schema) ==
    LET filled == FillNaFrame(frame)
        bad == Filter(filled, {i \in 1..Len(filled) : RecordFails(filled[i].data, schema)})
    IN [i \in 1..Len(bad) |->
          [row    |-> ErrorRow(bad[i].index),
           data   |-> bad[i].data,
           errors |-> FailingFields(bad[i].data, schema)]]

----------------------------------------------------------------------------
(* Custom rules: main's dict of rules and execute_custom_validations.      *)

\* d[rule["field"]] = rule on a dict kept as a sequence in insertion order: a
\* field already present keeps its place and takes the new rule.
DictPut(d, rule) ==
    IF \E i \in 1..Len(d) : d[i].field = rule.field
    THEN [i \in 1..Len(d) |-> IF d[i].field = rule.field THEN rule ELSE d[i]]
    ELSE Append(d, rule)

\* {rule["field"]: rule for rule in rules}
RECURSIVE RulesDict(_)
RulesDict(rules) ==
    IF rules = <<>> THEN <<>>
    ELSE DictPut(RulesDict(SubSeq(rules, 1, Len(rules) - 1)), rules[Len(rules)])

\* DATE_PART('year', AGE(today, CAST(field AS DATE))) < min_age
Violates(r, rule) == r.data[rule.field] < rule.min_age

\* The positions of the stage table the rule's SELECT returns and its DELETE removes.
InvalidAt(tbl, rule) == {i \in 1..Len(tbl) : Violates(tbl[i], rule)}

\* Mutant of RuleRaises: the mode is compared with a name no configuration uses.
RuleRaisesOnAbort(invalid_rows, mode) == invalid_rows # <<>> /\ mode = "abort"

\* Lines 179 and 186: the rule raises ValueError.
RuleRaises(invalid_rows, mode) == invalid_rows # <<>> /\ mode = "stop"

\* Lines 179 and 189: the rule's violating rows are deleted.
RuleSkips(invalid_rows, mode) == invalid_rows # <<>> /\ mode = "skip"

\* invalid_rows: SELECT * FROM <entity>_stage WHERE ...
InvalidRows(tbl, rule) ==
    LET sel == Filter(tbl, InvalidAt(tbl, rule))
    IN [i \in 1..Len(sel) |-> sel[i].data]

----------------------------------------------------------------------------
(* Projections: apply_aliases, create_views_with_projection,               *)
(* create_tables_with_projection, export_views_to_csv,                     *)
(* get_projection_summary. A projection is                                 *)
(*   [name, type, query, aliases, engine_ok]                               *)
(* where aliases is the set of source fields of its alias mapping and      *)
(* engine_ok says whether the engine accepts its rewritten query.          *)

\* apply_aliases raises ValueError unless every aliased field is in the schema.
AliasesOK(p, schema) == p.aliases \subseteq DOMAIN schema

\* A loop over the views that the first failing view ends: the views declared
\* after it are not built.
CreateViewsUntilFailure(ps, schema, rels) ==
    LET tried(i)  == ps[i].type = "view" /\ ps[i].query # ""
        failed(i) == tried(i) /\ ~(AliasesOK(ps[i], schema) /\ ps[i].engine_ok)
    IN rels \cup {ps[i].name : i \in {k \in 1..Len(ps) :
                                        /\ tried(k)
                                        /\ \A j \in 1..k : ~failed(j)}}

\* create_views_with_projection: the relations after its loop.
RECURSIVE CreateViewsOver(_, _, _)
CreateViewsOver(ps, schema, rels) ==
    IF ps = <<>> THEN rels
    ELSE LET p == Head(ps)
             made == /\ p.type = "view"
                     /\ p.query # ""
                     /\ AliasesOK(p, schema)
                     /\ p.engine_ok
         IN CreateViewsOver(Tail(ps), schema, IF made THEN rels \cup {p.name} ELSE rels)

\* create_tables_with_projection: CREATE TABLE also fails on a name that exists.
RECURSIVE CreateTablesOver(_, _, _)
CreateTablesOver(ps, schema, rels) ==
    IF ps = <<>> THEN rels
    ELSE LET p == Head(ps)
             made == /\ p.type = "table"
                     /\ p.query # ""
                     /\ AliasesOK(p, schema)
                     /\ p.engine_ok
                     /\ p.name \notin rels
         IN CreateTablesOver(Tail(ps), schema, IF made THEN rels \cup {p.name} ELSE rels)

\* export_views_to_csv: the names whose COPY succeeds.
ExportedNames(ps, rels) ==
    {ps[i].name : i \in {j \in 1..Len(ps) :
                           ps[j].type \in {"view", "table"} /\ ps[j].name \in rels}}

\* get_projection_summary: "rows" stands for a fetched row count.
ProjectionSummary(ps, rels) ==
    [n \in {ps[i].name : i \in 1..Len(ps)} |->
        LET last == CHOOSE i \in 1..Len(ps) :
                       /\ ps[i].name = n
                       /\ \A j \in (i + 1)..Len(ps) : ps[j].name # n
        IN [type |-> ps[last].type,
            rows |-> IF n \in rels THEN "rows" ELSE "Error"]]

----------------------------------------------------------------------------
(* save_errors: writes the file <entity>_<error_type>_errors.csv unless    *)
(* the data is empty.                                                      *)
save_errors(files, data, error_type) ==
    IF data = <<>> THEN files
    ELSE [n \in DOMAIN files \cup {error_type} |->
            IF n = error_type THEN data ELSE files[n]]

\* main's loop over the returned issues (lines 466-469).
RECURSIVE SaveIssues(_, _)
SaveIssues(files, issues) ==
    IF issues = <<>> THEN files
    ELSE SaveIssues(save_errors(files, Head(issues).invalid_rows,
                                <<"custom", Head(issues).field>>),
                    Tail(issues))

----------------------------------------------------------------------------
(* The inputs the specifications draw from.                                *)

DetailKeys  == {"source", "settings", "validations", "projections"}
SettingKeys == {"duplicate_resolution", "custom_validation_mode", "unique_composite"}

Modes       == {"stop", "skip", "warn"}
Resolutions == {"first", "last", "exclude_all", "keep_last"}

\* Rows of the source file read by main.
MainRecords == [a : {0, 1}, birthday_on : {10, 20}, hired_on : {20}]
MainSchema  == [a           |-> [type |-> "int", min |-> 1],
                birthday_on |-> [type |-> "str"],
                hired_on    |-> [type |-> "str"]]
MainComposites == {<<>>, << <<"a">> >>, << <<"a", "birthday_on">>, <<"birthday_on">> >>}
MainResolutions == {"first", "exclude_all", "keep_last"}

RuleSet == {[field |-> "birthday_on", validation |-> "age_gte", min_age |-> 18],
            [field |-> "birthday_on", validation |-> "age_gte", min_age |-> 21],
            [field |-> "hired_on",    validation |-> "age_gte", min_age |-> 21],
            [field |-> "hired_on",    validation |-> "not_null", min_age |-> 0]}

\* Declared lists of rules: no rule is declared twice.
RuleLists ==
    {rs \in SeqsUpTo(RuleSet, MaxRules) :
        \A i, j \in 1..Len(rs) : i # j => rs[i] # rs[j]}

ProjectionLists ==
    {<<[name |-> "v1", type |-> "view",  query |-> "q", aliases |-> {"a"}, engine_ok |-> TRUE],
       [name |-> "t1", type |-> "table", query |-> "q", aliases |-> {},    engine_ok |-> TRUE]>>}

\* Declared projections handed to the projection steps: a view or a table, with
\* or without a query, whose aliases name a field of the schema ("a"), a field
\* absent from it ("zz") or nothing, and which the engine accepts or rejects.
\* Every projection of a list has its own name.
ProjectionNames == {"p1", "p2", "p3"}
ProjectionSet ==
    [name : ProjectionNames, type : {"view", "table"}, query : {"q", ""},
     aliases : {{}, {"a"}, {"zz"}}, engine_ok : BOOLEAN]
DeclaredProjections ==
    {ps \in SeqsUpTo(ProjectionSet, MaxProjections) :
        \A i, j \in 1..Len(ps) : i # j => ps[i].name # ps[j].name}

\* A configuration that passes validate_config, with an existing source file.
BaseConfig ==
    [has_entity    |-> TRUE,
     detail_keys   |-> DetailKeys,
     setting_keys  |-> SettingKeys,
     source_exists |-> TRUE,
     source_rows   |-> <<>>,
     schema        |-> MainSchema,
     mode          |-> "stop",
     resolution    |-> "first",
     composite     |-> <<>>,
     rules         |-> <<>>,
     projections   |-> <<>>]

\* Configurations that lack the entity or one of the keys validate_config asks for.
InvalidConfigs ==
    {[BaseConfig EXCEPT !.has_entity = FALSE]}
    \cup {[BaseConfig EXCEPT !.detail_keys = ks] :
            ks \in {k \in SUBSET DetailKeys :
                      \E r \in {"source", "settings", "validations"} : r \notin k}}
    \cup {[BaseConfig EXCEPT !.setting_keys = ks] :
            ks \in {k \in SUBSET SettingKeys :
                      \E r \in {"duplicate_resolution", "custom_validation_mode"} :
                          r \notin k}}

\* Configurations that pass it. An optional key (projections, unique_composite)
\* is absent exactly when the value read for it is the default.
ValidConfigs ==
    {[BaseConfig EXCEPT
        !.detail_keys   = IF ps = <<>> THEN DetailKeys \ {"projections"} ELSE DetailKeys,
        !.setting_keys  = IF ks = <<>> THEN SettingKeys \ {"unique_composite"}
                          ELSE SettingKeys,
        !.source_exists = TRUE,
        !.source_rows   = rows,
        !.mode          = m,
        !.resolution    = res,
        !.composite     = ks,
        !.rules         = rules,
        !.projections   = ps] :
        rows \in SeqsUpTo(MainRecords, MaxInput),
        m \in Modes, res \in MainResolutions, ks \in MainComposites,
        rules \in RuleLists, ps \in ProjectionLists}
    \cup {[BaseConfig EXCEPT !.source_exists = FALSE, !.mode = m] : m \in Modes}

\* Tables handed to the dedup functions.
KeyRecords == [a : {1, 2}, b : {1, 2}]
Composites == {<<"a">>, <<"b">>, <<"a", "b">>}

\* Frames and schemas handed to schema validation.
SchemaRecords ==
    [a : {0, 1, 2}, birthday_on : {10}] \cup [a : {0, 1, 2}]
    \cup [a : {0, 1}, ends_on : {NaN, 30}]
    \cup [a : {0, 1}, pt_contract_type_id : {NaN, 2}]
Schemas ==
    {[a |-> ra] : ra \in {[type |-> "int"], [type |-> "int", min |-> 1],
                          [type |-> "float", min |-> 2], [type |-> "str", min |-> 1]}}
    \cup {[a |-> [type |-> "int", min |-> 1], birthday_on |-> rb] :
            rb \in {[type |-> "str"], [type |-> "int"]}}
    \cup {[a |-> [type |-> "int", min |-> 1], ends_on |-> [type |-> "str"]]}
    \cup {[a |-> [type |-> "int", min |-> 1], pt_contract_type_id |-> rp] :
            rp \in {[type |-> "int"], [type |-> "int", min |-> 1]}}

\* A frame has the same columns in every row.
SchemaFrames ==
    {MkFrame(recs) : recs \in {rs \in SeqsUpTo(SchemaRecords, MaxRows) :
                                  \A i, j \in 1..Len(rs) : DOMAIN rs[i] = DOMAIN rs[j]}}

----------------------------------------------------------------------------
(* Initial states.                                                         *)

IdleSettings ==
    /\ duplicate_resolution = ""
    /\ custom_validation_mode = ""
    /\ unique_composite = <<>>
    /\ custom_validations = <<>>
    /\ projections = <<>>

IdleMain ==
    /\ outcome = ""
    /\ raised = <<>>
    /\ conn = "none"
    /\ df = <<>>
    /\ valid_records = <<>>
    /\ schema_errors = <<>>
    /\ raw = <<>>

IdleSql ==
    /\ stage = <<>>
    /\ key_i = 0
    /\ duplicate_rows = <<>>

IdleRules ==
    /\ rule_i = 0
    /\ validation_issues = <<>>
    /\ total_invalid_rows = 0
    /\ issues_returned = <<>>
    /\ evaluated = <<>>

IdleOut ==
    /\ artifacts = <<>>
    /\ relations = {}
    /\ exported = {}
    /\ summary = <<>>

IdleRcd ==
    /\ rcd_df = <<>>
    /\ removed_rows = <<>>
    /\ rcd_i = 0
    /\ rcd_pc = "idle"

\* main is called with a loaded configuration.
Init ==
    /\ pc = "validate_config"
    /\ config \in InvalidConfigs \cup ValidConfigs
    /\ IdleSettings /\ IdleMain /\ IdleSql /\ IdleRules /\ IdleOut /\ IdleRcd


\* remove_duplicates_from_stage_table and remove_composite_duplicates are each
\* called with the same rows, composite keys and resolution.
InitDedup ==
    /\ pc = "dedup_create"
    /\ config = BaseConfig
    /\ \E recs \in SeqsUpTo(KeyRecords, MaxRows) :
          /\ raw = MkTable(recs)
          /\ rcd_df = MkFrame(recs)
    /\ unique_composite \in SeqsUpTo(Composites, MaxKeys)
    /\ duplicate_resolution \in Resolutions
    /\ custom_validation_mode = ""
    /\ custom_validations = <<>>
    /\ projections = <<>>
    /\ outcome = ""
    /\ raised = <<>>
    /\ conn = "open"
    /\ df = <<>>
    /\ valid_records = <<>>
    /\ schema_errors = <<>>
    /\ IdleSql /\ IdleRules /\ IdleOut
    /\ removed_rows = <<>>
    /\ rcd_i = 0
    /\ rcd_pc = "loop"

\* validate_format_with_pydantic is called with a frame and a schema.
InitSchema ==
    /\ pc = "validate_format"
    /\ \E s \in Schemas : config = [BaseConfig EXCEPT !.schema = s]
    /\ df \in SchemaFrames
    /\ outcome = ""
    /\ raised = <<>>
    /\ conn = "open"
    /\ valid_records = <<>>
    /\ schema_errors = <<>>
    /\ raw = <<>>
    /\ IdleSettings /\ IdleSql /\ IdleRules /\ IdleOut /\ IdleRcd

\* main has reached line 474 with the projections its configuration declares.
InitProjections ==
    /\ pc = "create_views"
    /\ \E ps \in DeclaredProjections :
          /\ config = [BaseConfig EXCEPT !.projections = ps]
          /\ projections = ps
    /\ duplicate_resolution = "first"
    /\ custom_validation_mode = "stop"
    /\ unique_composite = <<>>
    /\ custom_validations = <<>>
    /\ outcome = ""
    /\ raised = <<>>
    /\ conn = "open"
    /\ df = <<>>
    /\ valid_records = <<>>
    /\ schema_errors = <<>>
    /\ raw = <<>>
    /\ IdleSql /\ IdleRules /\ IdleOut /\ IdleRcd

----------------------------------------------------------------------------
(* main, one action per step.                                              *)

\* Lines 412-424: validate_config, whose KeyError leaves main (the call is
\* outside the try block), then the reads of the entity's record.
ValidateConfig ==
    /\ pc = "validate_config"
    /\ IF validate_config(config)[1] = "KeyError"
       THEN /\ pc' = "done"
            /\ outcome' = "propagated"
            /\ raised' = validate_config(config)
            /\ UNCHANGED <<duplicate_resolution, custom_validation_mode,
                           unique_composite, custom_validations, projections>>
       ELSE /\ pc' = "connect"
            /\ outcome' = outcome
            /\ raised' = raised
            /\ duplicate_resolution' = config.resolution
            /\ custom_validation_mode' = config.mode
            /\ unique_composite' = IF "unique_composite" \in config.setting_keys
                                   THEN config.composite ELSE <<>>
            /\ custom_validations' = RulesDict(config.rules)
            /\ projections' = IF "projections" \in config.detail_keys
                              THEN config.projections ELSE <<>>
    /\ UNCHANGED <<config, conn, df, valid_records, schema_errors, raw,
                   sqlVars, ruleVars, outVars, rcdVars>>

\* Line 427: conn = duckdb.connect()
Connect ==
    /\ pc = "connect"
    /\ conn' = "open"
    /\ pc' = "read_csv"
    /\ UNCHANGED <<cfgVars, outcome, raised, df, valid_records, schema_errors, raw,
                   sqlVars, ruleVars, outVars, rcdVars>>

\* Line 432: pd.read_csv; a missing file raises FileNotFoundError, caught at 500.
ReadCsv ==
    /\ pc = "read_csv"
    /\ IF config.source_exists
       THEN /\ df' = MkFrame(config.source_rows)
            /\ pc' = "validate_format"
            /\ outcome' = outcome
            /\ raised' = raised
       ELSE /\ df' = df
            /\ pc' = "finally"
            /\ outcome' = "caught"
            /\ raised' = <<"FileNotFoundError", "source">>
    /\ UNCHANGED <<cfgVars, conn, valid_records, schema_errors, raw,
                   sqlVars, ruleVars, outVars, rcdVars>>

\* Line 433: validate_format_with_pydantic.
ValidateFormat ==
    /\ pc = "validate_format"
    /\ valid_records' = ValidRecords(df, config.schema)
    /\ schema_errors' = ErrorRecords(df, config.schema)
    /\ pc' = "schema_errors"
    /\ UNCHANGED <<cfgVars, outcome, raised, conn, df, raw,
                   sqlVars, ruleVars, outVars, rcdVars>>

\* Mutant of SaveSchemaErrors: the return in stop mode is missing.
SaveSchemaErrorsNoReturn ==
    /\ pc = "schema_errors"
    /\ artifacts' = save_errors(artifacts, schema_errors, <<"schema_validation">>)
    /\ pc' = "load_raw"
    /\ UNCHANGED <<cfgVars, outcome, raised, conn, df, valid_records, schema_errors, raw,
                   sqlVars, ruleVars, relations, exported, summary, rcdVars>>

\* Lines 435-439: save the schema errors; in stop mode, return.
SaveSchemaErrors ==
    /\ pc = "schema_errors"
    /\ artifacts' = save_errors(artifacts, schema_errors, <<"schema_validation">>)
    /\ IF schema_errors # <<>> /\ custom_validation_mode = "stop"
       THEN pc' = "finally" /\ outcome' = "returned"
       ELSE pc' = "load_raw" /\ outcome' = outcome
    /\ UNCHANGED <<cfgVars, raised, conn, df, valid_records, schema_errors, raw,
                   sqlVars, ruleVars, relations, exported, summary, rcdVars>>

\* Line 443: load_raw_table. A frame built from no record has no column; whether
\* the engine registers it or rejects it is left open.
LoadRaw ==
    /\ pc = "load_raw"
    /\ \/ /\ raw' = MkTable([i \in 1..Len(valid_records) |-> valid_records[i].data])
          /\ pc' = "dedup_create"
          /\ outcome' = outcome
          /\ raised' = raised
       \/ /\ valid_records = <<>>
          /\ raw' = raw
          /\ pc' = "finally"
          /\ outcome' = "caught"
          /\ raised' = <<"Exception", "load_raw_table">>
    /\ UNCHANGED <<cfgVars, conn, df, valid_records, schema_errors,
                   sqlVars, ruleVars, outVars, rcdVars>>

----------------------------------------------------------------------------
(* remove_duplicates_from_stage_table, as main calls it at line 447.       *)

\* Lines 99-104: CREATE TABLE <entity>_stage AS SELECT * FROM <entity>_raw.
DedupCreate ==
    /\ pc = "dedup_create"
    /\ stage' = raw
    /\ duplicate_rows' = <<>>
    /\ key_i' = 0
    /\ pc' = "dedup_loop"
    /\ UNCHANGED <<cfgVars, outcome, raised, conn, df, valid_records, schema_errors, raw,
                   ruleVars, outVars, rcdVars>>

\* Mutant of DedupPass: the duplicates are looked for in the raw table, the
\* dataset as it was before any pass.
DedupPassOnOriginal ==
    /\ pc = "dedup_loop"
    /\ key_i < Len(unique_composite)
    /\ LET key == unique_composite[key_i + 1]
           gone == {raw[i].rowid : i \in DedupSelected(raw, key, duplicate_resolution)}
       IN /\ duplicate_rows' =
                duplicate_rows \o DedupDuplicates(raw, key, duplicate_resolution)
          /\ stage' = Filter(stage, {i \in 1..Len(stage) : stage[i].rowid \notin gone})
    /\ key_i' = key_i + 1
    /\ UNCHANGED <<cfgVars, mainVars, ruleVars, outVars, rcdVars>>

\* Lines 106-153: one iteration of the loop over unique_composite.
DedupPass ==
    /\ pc = "dedup_loop"
    /\ key_i < Len(unique_composite)
    /\ LET key == unique_composite[key_i + 1]
       IN /\ duplicate_rows' =
                duplicate_rows \o DedupDuplicates(stage, key, duplicate_resolution)
          /\ stage' = DedupDelete(stage, key, duplicate_resolution)
    /\ key_i' = key_i + 1
    /\ UNCHANGED <<cfgVars, mainVars, ruleVars, outVars, rcdVars>>

\* Lines 155-159 and 453-454: the function returns and main saves the report.
DedupReturn ==
    /\ pc = "dedup_loop"
    /\ key_i = Len(unique_composite)
    /\ artifacts' = save_errors(artifacts, duplicate_rows, <<"duplicates">>)
    /\ pc' = "custom_loop"
    /\ UNCHANGED <<cfgVars, outcome, raised, conn, df, valid_records, schema_errors, raw,
                   sqlVars, ruleVars, relations, exported, summary, rcdVars>>

----------------------------------------------------------------------------
(* execute_custom_validations, as main calls it at line 458.               *)

\* Lines 165-195: one iteration of the loop over the dict of rules. In stop mode
\* a violated rule raises ValueError, caught at line 498: the function's locals
\* are gone with its frame.
RuleStep ==
    /\ pc = "custom_loop"
    /\ rule_i < Len(custom_validations)
    /\ rule_i' = rule_i + 1
    /\ LET rule == custom_validations[rule_i + 1]
           invalid_rows == InvalidRows(stage, rule)
       IN IF rule.validation # "age_gte"
          THEN UNCHANGED <<pc, outcome, raised, stage, validation_issues,
                           total_invalid_rows, evaluated>>
          ELSE /\ evaluated' = Append(evaluated, rule)
               /\ total_invalid_rows' = total_invalid_rows + Len(invalid_rows)
               /\ validation_issues' =
                     IF invalid_rows = <<>> THEN validation_issues
                     ELSE Append(validation_issues,
                                 [field |-> rule.field, validation |-> "age_gte",
                                  invalid_rows |-> invalid_rows])
               /\ IF RuleRaises(invalid_rows, custom_validation_mode)
                  THEN /\ pc' = "finally"
                       /\ outcome' = "caught"
                       /\ raised' = <<"ValueError", rule.field>>
                  ELSE UNCHANGED <<pc, outcome, raised>>
               /\ stage' = IF RuleSkips(invalid_rows, custom_validation_mode)
                           THEN Filter(stage, (1..Len(stage)) \ InvalidAt(stage, rule))
                           ELSE stage
    /\ UNCHANGED <<cfgVars, conn, df, valid_records, schema_errors, raw,
                   key_i, duplicate_rows, issues_returned, outVars, rcdVars>>

\* Line 197: return validation_issues, total_invalid_rows.
RulesReturn ==
    /\ pc = "custom_loop"
    /\ rule_i = Len(custom_validations)
    /\ issues_returned' = validation_issues
    /\ pc' = "save_custom"
    /\ UNCHANGED <<cfgVars, outcome, raised, conn, df, valid_records, schema_errors, raw,
                   sqlVars, rule_i, validation_issues, total_invalid_rows, evaluated,
                   outVars, rcdVars>>

\* Lines 466-469: save every returned issue.
SaveCustom ==
    /\ pc = "save_custom"
    /\ artifacts' = SaveIssues(artifacts, issues_returned)
    /\ pc' = "create_views"
    /\ UNCHANGED <<cfgVars, outcome, raised, conn, df, valid_records, schema_errors, raw,
                   sqlVars, ruleVars, relations, exported, summary, rcdVars>>

----------------------------------------------------------------------------
(* Projections, export, summary, and the finally clause.                   *)

\* Line 474.
CreateViews ==
    /\ pc = "create_views"
    /\ relations' = CreateViewsOver(projections, config.schema, relations)
    /\ pc' = "create_tables"
    /\ UNCHANGED <<cfgVars, outcome, raised, conn, df, valid_records, schema_errors, raw,
                   sqlVars, ruleVars, artifacts, exported, summary, rcdVars>>

\* Line 475.
CreateTables ==
    /\ pc = "create_tables"
    /\ relations' = CreateTablesOver(projections, config.schema, relations)
    /\ pc' = "export"
    /\ UNCHANGED <<cfgVars, outcome, raised, conn, df, valid_records, schema_errors, raw,
                   sqlVars, ruleVars, artifacts, exported, summary, rcdVars>>

\* Line 479.
Export ==
    /\ pc = "export"
    /\ exported' = ExportedNames(projections, relations)
    /\ pc' = "summary"
    /\ UNCHANGED <<cfgVars, outcome, raised, conn, df, valid_records, schema_errors, raw,
                   sqlVars, ruleVars, artifacts, relations, summary, rcdVars>>

\* Lines 483-494: get_projection_summary and generate_summary; main falls off
\* the end of the try block.
Summary ==
    /\ pc = "summary"
    /\ summary' = ProjectionSummary(projections, relations)
    /\ pc' = "finally"
    /\ outcome' = "completed"
    /\ UNCHANGED <<cfgVars, raised, conn, df, valid_records, schema_errors, raw,
                   sqlVars, ruleVars, artifacts, relations, exported, rcdVars>>

\* main ending without its finally clause: the connection stays as it was.
FinallyLeavesOpen ==
    /\ pc = "finally"
    /\ pc' = "done"
    /\ UNCHANGED <<cfgVars, outcome, raised, conn, df, valid_records, schema_errors, raw,
                   sqlVars, ruleVars, outVars, rcdVars>>

\* Lines 504-505: conn.close(), and main ends.
Finally ==
    /\ pc = "finally"
    /\ conn' = "closed"
    /\ pc' = "done"
    /\ UNCHANGED <<cfgVars, outcome, raised, df, valid_records, schema_errors, raw,
                   sqlVars, ruleVars, outVars, rcdVars>>

----------------------------------------------------------------------------
(* remove_composite_duplicates.                                            *)

\* Lines 203-217: one iteration of the loop; drop_duplicates raises ValueError
\* on a resolution pandas does not know.
RcdPass ==
    /\ rcd_pc = "loop"
    /\ rcd_i < Len(unique_composite)
    /\ LET key == unique_composite[rcd_i + 1]
       IN /\ removed_rows' =
                removed_rows \o RcdDuplicates(rcd_df, key, duplicate_resolution)
          /\ IF RcdRaises(rcd_df, duplicate_resolution)
             THEN rcd_df' = rcd_df /\ rcd_pc' = "raised"
             ELSE /\ rcd_df' = RcdKept(rcd_df, key, duplicate_resolution)
                  /\ rcd_pc' = rcd_pc
    /\ rcd_i' = rcd_i + 1
    /\ UNCHANGED <<cfgVars, mainVars, sqlVars, ruleVars, outVars>>

\* Lines 220-221: return df, removed_rows.
RcdReturn ==
    /\ rcd_pc = "loop"
    /\ rcd_i = Len(unique_composite)
    /\ rcd_pc' = "returned"
    /\ UNCHANGED <<cfgVars, mainVars, sqlVars, ruleVars, outVars,
                   rcd_df, removed_rows, rcd_i>>

----------------------------------------------------------------------------
(* Specifications.                                                         *)

\* main, from a loaded configuration to its end.
Next ==
    \/ ValidateConfig
    \/ Connect
    \/ ReadCsv
    \/ ValidateFormat
    \/ SaveSchemaErrors
    \/ LoadRaw
    \/ DedupCreate
    \/ DedupPass
    \/ DedupReturn
    \/ RuleStep
    \/ RulesReturn
    \/ SaveCustom
    \/ CreateViews
    \/ CreateTables
    \/ Export
    \/ Summary
    \/ Finally

Spec == Init /\ [][Next]_vars

\* The two deduplication functions on the same input.
NextDedup ==
    \/ DedupCreate
    \/ DedupPass
    \/ RcdPass
    \/ RcdReturn

SpecDedup == InitDedup /\ [][NextDedup]_vars

\* Schema validation alone.
NextSchema == ValidateFormat

SpecSchema == InitSchema /\ [][NextSchema]_vars

\* The projection steps of main, to its end.
NextProjections ==
    \/ CreateViews
    \/ CreateTables
    \/ Export
    \/ Summary
    \/ Finally

SpecProjections == InitProjections /\ [][NextProjections]_vars

----------------------------------------------------------------------------
(* Claims about deduplication, checked under SpecDedup.                    *)

Rowids(tbl) == {tbl[i].rowid : i \in 1..Len(tbl)}
Labels(frame) == {frame[i].index : i \in 1..Len(frame)}

\* The key values of a record under a composite key.
KeyOf(rec, key) == [c \in 1..Len(key) |-> rec[key[c]]]

\* A step of the SQL loop, a completed step of the pandas loop.
SqlPassStep == key_i' = key_i + 1
RcdPassStep == rcd_i' = rcd_i + 1 /\ rcd_pc' = "loop"

\* The rows of tbl that are last (first) among the rows sharing their key values.
LastOfGroup(tbl, key) ==
    {i \in 1..Len(tbl) : ~\E j \in (i + 1)..Len(tbl) : SameKey(tbl[j], tbl[i], key)}
FirstOfGroup(tbl, key) ==
    {i \in 1..Len(tbl) : ~\E j \in 1..(i - 1) : SameKey(tbl[j], tbl[i], key)}

\* C1: in every pass, of either function, resolution "last" keeps of each group
\* of rows sharing the key values exactly the last row by current row order and
\* resolution "first" exactly the first one.
C1_KeepsResolvedRow ==
    [][/\ (SqlPassStep /\ duplicate_resolution = "last") =>
            Rowids(stage') =
               {stage[i].rowid : i \in LastOfGroup(stage, unique_composite[key_i + 1])}
       /\ (SqlPassStep /\ duplicate_resolution = "first") =>
            Rowids(stage') =
               {stage[i].rowid : i \in FirstOfGroup(stage, unique_composite[key_i + 1])}
       /\ (RcdPassStep /\ duplicate_resolution = "last") =>
            Labels(rcd_df') =
               {rcd_df[i].index : i \in LastOfGroup(rcd_df, unique_composite[rcd_i + 1])}
       /\ (RcdPassStep /\ duplicate_resolution = "first") =>
            Labels(rcd_df') =
               {rcd_df[i].index : i \in FirstOfGroup(rcd_df, unique_composite[rcd_i + 1])}
      ]_vars

\* What of C1 the code does: the SQL function keeps the first row of each group
\* under both resolutions, the pandas function keeps the resolved row.
C1_AsCoded ==
    [][/\ (SqlPassStep /\ duplicate_resolution \in {"first", "last"}) =>
            Rowids(stage') =
               {stage[i].rowid : i \in FirstOfGroup(stage, unique_composite[key_i + 1])}
       /\ (RcdPassStep /\ duplicate_resolution = "last") =>
            Labels(rcd_df') =
               {rcd_df[i].index : i \in LastOfGroup(rcd_df, unique_composite[rcd_i + 1])}
       /\ (RcdPassStep /\ duplicate_resolution = "first") =>
            Labels(rcd_df') =
               {rcd_df[i].index : i \in FirstOfGroup(rcd_df, unique_composite[rcd_i + 1])}
      ]_vars

\* The rows of the raw table in the group of row i under a key, the survivors
\* among them, and the number of report rows carrying the group's key values.
GroupOf(tbl, i, key) == {j \in 1..Len(tbl) : SameKey(tbl[j], tbl[i], key)}
SurvivorsOf(tbl, after, i, key) ==
    {j \in GroupOf(tbl, i, key) : tbl[j].rowid \in Rowids(after)}
ReportedFor(report, rec, key) ==
    Cardinality({k \in 1..Len(report) : KeyOf(report[k], key) = KeyOf(rec, key)})

\* C7: after the pass of remove_duplicates_from_stage_table over one composite
\* key, under first/last every group of N rows has exactly one survivor and
\* N - 1 rows in the report; under exclude_all a group of N > 1 rows has no
\* survivor and N rows in the report; a row with unique key values survives
\* and is not reported.
C7_OneKeyCounts ==
    (pc = "dedup_loop" /\ key_i = 1) =>
        \A i \in 1..Len(raw) :
            LET key == unique_composite[1]
                N == Cardinality(GroupOf(raw, i, key))
                S == Cardinality(SurvivorsOf(raw, stage, i, key))
                R == ReportedFor(duplicate_rows, raw[i].data, key)
            IN /\ duplicate_resolution \in {"first", "last"} => S = 1 /\ R = N - 1
               /\ (duplicate_resolution = "exclude_all" /\ N > 1) => S = 0 /\ R = N
               /\ (duplicate_resolution = "exclude_all" /\ N = 1) => S = 1 /\ R = 0

\* A group of two rows and a row of its own, under exclude_all: one survivor.
C7_Witness ==
    /\ pc = "dedup_loop" /\ key_i = 1
    /\ duplicate_resolution = "exclude_all"
    /\ Len(raw) = 3 /\ Len(stage) = 1 /\ Len(duplicate_rows) = 2

\* The whole loop of remove_duplicates_from_stage_table over a list of keys.
RECURSIVE DedupAll(_, _, _)
DedupAll(tbl, keys, resolution) ==
    IF keys = <<>> THEN tbl
    ELSE DedupAll(DedupDelete(tbl, Head(keys), resolution), Tail(keys), resolution)

\* The whole loop of remove_composite_duplicates over a list of keys.
RECURSIVE RcdAll(_, _, _)
RcdAll(frame, keys, resolution) ==
    IF keys = <<>> THEN frame
    ELSE RcdAll(RcdKept(frame, Head(keys), resolution), Tail(keys), resolution)

Reverse(s) == [i \in 1..Len(s) |-> s[Len(s) + 1 - i]]

\* What tells a row of a table (its ROWID) or of a frame (its index label).
Ident(r) == IF "rowid" \in DOMAIN r THEN r.rowid ELSE r.index
Idents(t) == {Ident(t[i]) : i \in 1..Len(t)}

\* One pass works on the rows the passes before it left: every row it removes
\* shares the values of the pass's key, the next in declaration order, with
\* another row that was still there, and no two rows it leaves share them.
PassOnReduced(before, after, key) ==
    /\ Idents(after) \subseteq Idents(before)
    /\ \A i \in 1..Len(before) :
          Ident(before[i]) \notin Idents(after) =>
              \E j \in (1..Len(before)) \ {i} : SameKey(before[j], before[i], key)
    /\ \A i, j \in 1..Len(after) : i # j => ~SameKey(after[i], after[j], key)

\* C8: the composite keys are processed in declaration order, each pass on the
\* rows left by the passes before it, in both functions, and the survivors are
\* a function of the input rows and the key list.
C8_SequentialPasses ==
    /\ [][/\ (SqlPassStep /\ duplicate_resolution \in {"first", "last", "exclude_all"})
               => PassOnReduced(stage, stage', unique_composite[key_i + 1])
          /\ (RcdPassStep /\ duplicate_resolution \in {"first", "last", "exclude_all"})
               => PassOnReduced(rcd_df, rcd_df', unique_composite[rcd_i + 1])
         ]_vars
    /\ [](/\ (pc = "dedup_loop" /\ key_i = Len(unique_composite)) =>
                stage = DedupAll(raw, unique_composite, duplicate_resolution)
          /\ rcd_pc = "returned" =>
                rcd_df = RcdAll(MkFrame([i \in 1..Len(raw) |-> raw[i].data]),
                                unique_composite, duplicate_resolution))

\* Overlapping groups: the key order [A, B] leaves other survivors than [B, A].
C8_Witness ==
    /\ pc = "dedup_loop" /\ key_i = 2 /\ Len(unique_composite) = 2
    /\ duplicate_resolution = "first"
    /\ Rowids(stage) #
          Rowids(DedupAll(raw, Reverse(unique_composite), duplicate_resolution))
    /\ rcd_pc = "returned"
    /\ Labels(rcd_df) #
          Labels(RcdAll(MkFrame([i \in 1..Len(raw) |-> raw[i].data]),
                        Reverse(unique_composite), duplicate_resolution))

----------------------------------------------------------------------------
(* Claims about schema validation, checked under SpecSchema.               *)

\* C9: schema validation partitions the input. The error records carry the
\* 1-based positions of distinct input rows with those rows' data, the valid
\* records are the other input rows, in order, and the two counts add up to the
\* number of input rows. The data are those of the rows after fillna.
C9_SchemaPartition ==
    pc = "schema_errors" =>
        LET n == Len(df)
            E == {schema_errors[k].row : k \in 1..Len(schema_errors)}
            rest == Filter(df, (1..n) \ E)
        IN /\ Len(valid_records) + Len(schema_errors) = n
           /\ E \subseteq 1..n
           /\ Cardinality(E) = Len(schema_errors)
           /\ \A k \in 1..Len(schema_errors) :
                 schema_errors[k].data = FillNa(df[schema_errors[k].row].data)
           /\ Len(valid_records) = Len(rest)
           /\ \A k \in 1..Len(rest) :
                 \A f \in DOMAIN valid_records[k].data :
                     valid_records[k].data[f] = FillNa(rest[k].data)[f]

\* Three input rows of which the second alone fails: its empty cell, which
\* fillna made 0, is under the column's minimum of 1.
C9_Witness ==
    /\ pc = "schema_errors"
    /\ Len(df) = 3
    /\ Len(valid_records) = 2
    /\ Len(schema_errors) = 1
    /\ schema_errors[1].row = 2
    /\ df[2].data = [a |-> 1, pt_contract_type_id |-> NaN]
    /\ schema_errors[1].data = [a |-> 1, pt_contract_type_id |-> 0]
    /\ schema_errors[1].errors = {"pt_contract_type_id"}

----------------------------------------------------------------------------
(* Claims about main, checked under Spec.                                  *)

\* The configuration has the entity and every key validate_config asks for.
ConfigComplete ==
    /\ config.has_entity
    /\ {"source", "settings", "validations"} \subseteq config.detail_keys
    /\ {"duplicate_resolution", "custom_validation_mode"} \subseteq config.setting_keys

\* No pipeline stage has run: no connection, no file read, nothing written.
NothingRun ==
    /\ conn = "none"
    /\ df = <<>> /\ valid_records = <<>> /\ schema_errors = <<>>
    /\ raw = <<>> /\ stage = <<>>
    /\ artifacts = <<>>
    /\ relations = {} /\ exported = {} /\ summary = <<>>

\* C2: when main has ended on a stop-mode rule violation, the violating rows
\* of the rule that raised are in the error artifact of that rule's field.
C2_ViolationsSavedOnAbort ==
    (pc = "done" /\ outcome = "caught" /\ raised # <<>> /\ raised[1] = "ValueError") =>
        LET rule == evaluated[Len(evaluated)]
        IN /\ <<"custom", rule.field>> \in DOMAIN artifacts
           /\ artifacts[<<"custom", rule.field>>] = InvalidRows(stage, rule)

\* What of C2 the code does: the error sets main holds when it aborts (schema
\* errors, removed duplicates) are written.
C2_HeldSetsSaved ==
    pc = "done" =>
        /\ schema_errors # <<>> =>
              /\ <<"schema_validation">> \in DOMAIN artifacts
              /\ artifacts[<<"schema_validation">>] = schema_errors
        /\ duplicate_rows # <<>> =>
              /\ <<"duplicates">> \in DOMAIN artifacts
              /\ artifacts[<<"duplicates">>] = duplicate_rows

\* The rules of kind age_gte in a list of rules, in order.
AgeRules(rules) ==
    Filter(rules, {i \in 1..Len(rules) : rules[i].validation = "age_gte"})

\* C3: in stop mode the first rule, in evaluation order, with a violating row
\* raises ValueError naming its field: no later rule is evaluated, no row is
\* deleted from the stage table, no projection is built, exported or counted;
\* and when no rule raised, no evaluated rule had a violating row.
C3_StopAtFirstViolation ==
    custom_validation_mode = "stop" =>
        /\ pc \in {"custom_loop", "save_custom"} =>
              /\ stage = DedupAll(raw, unique_composite, duplicate_resolution)
              /\ \A k \in 1..rule_i :
                    custom_validations[k].validation = "age_gte" =>
                        InvalidAt(stage, custom_validations[k]) = {}
        /\ (raised # <<>> /\ raised[1] = "ValueError") =>
              /\ outcome = "caught"
              /\ rule_i \in 1..Len(custom_validations)
              /\ raised[2] = custom_validations[rule_i].field
              /\ custom_validations[rule_i].validation = "age_gte"
              /\ InvalidAt(stage, custom_validations[rule_i]) # {}
              /\ \A k \in 1..(rule_i - 1) :
                    custom_validations[k].validation = "age_gte" =>
                        InvalidAt(stage, custom_validations[k]) = {}
              /\ evaluated = AgeRules(SubSeq(custom_validations, 1, rule_i))
              /\ stage = DedupAll(raw, unique_composite, duplicate_resolution)
              /\ relations = {} /\ exported = {} /\ summary = <<>>
              /\ pc \in {"finally", "done"}

\* The first of two rules raises, the second is never evaluated.
C3_Witness ==
    /\ pc = "done"
    /\ custom_validation_mode = "stop"
    /\ raised = <<"ValueError", "birthday_on">>
    /\ Len(custom_validations) = 2
    /\ rule_i = 1
    /\ Len(evaluated) = 1
    /\ InvalidAt(stage, custom_validations[2]) # {}
    /\ projections # <<>>

\* C4: in skip mode, when the rule loop has ended, the rules evaluated are the
\* declared rules (of kind age_gte), each once, in declaration order.
C4_EveryDeclaredRuleEvaluated ==
    (custom_validation_mode = "skip" /\ pc = "save_custom") =>
        evaluated = AgeRules(config.rules)

\* What of C4 the code does: it evaluates the entries of the dict of rules,
\* each once, in dict order, each on the stage table as the rules before left it.
C4_DictEntriesEvaluated ==
    (custom_validation_mode = "skip" /\ pc = "save_custom") =>
        evaluated = AgeRules(custom_validations)

\* C5: a configuration error does not leave main.
C5_ConfigErrorCaught ==
    pc = "done" => outcome # "propagated"

\* C6: validate_config raises KeyError exactly when the configuration lacks the
\* entity or a required key, and main makes the check before any stage runs.
C6_ConfigChecked ==
    /\ pc = "validate_config" => NothingRun
    /\ pc # "validate_config" =>
          /\ ConfigComplete <=> outcome # "propagated"
          /\ outcome = "propagated" =>
                /\ pc = "done"
                /\ raised[1] = "KeyError"
                /\ NothingRun
          /\ ConfigComplete =>
                /\ duplicate_resolution = config.resolution
                /\ custom_validation_mode = config.mode

\* The entity's settings lack custom_validation_mode alone.
C6_Witness ==
    /\ pc = "done"
    /\ outcome = "propagated"
    /\ raised = <<"KeyError", "custom_validation_mode">>
    /\ config.has_entity
    /\ "duplicate_resolution" \in config.setting_keys

\* The rows of the raw table are the valid records, in order.
RawIsValidRecords ==
    /\ Len(raw) = Len(valid_records)
    /\ \A i \in 1..Len(raw) : raw[i].data = valid_records[i].data

\* C10: with schema errors, stop mode ends main right after the schema-error
\* artifact is written and nothing else runs; any other mode goes on, and
\* loads the valid records only.
C10_SchemaErrorsGate ==
    (schema_errors # <<>> /\ pc # "schema_errors") =>
        /\ artifacts[<<"schema_validation">>] = schema_errors
        /\ custom_validation_mode = "stop" =>
              /\ pc \in {"finally", "done"}
              /\ outcome = "returned"
              /\ DOMAIN artifacts = {<<"schema_validation">>}
              /\ raw = <<>> /\ stage = <<>> /\ duplicate_rows = <<>>
              /\ rule_i = 0 /\ evaluated = <<>>
              /\ relations = {} /\ exported = {} /\ summary = <<>>
        /\ custom_validation_mode # "stop" =>
              /\ outcome # "returned"
              /\ pc # "load_raw" => RawIsValidRecords
              /\ \A i \in 1..Len(raw) : ~RecordFails(raw[i].data, config.schema)

\* Stop mode, one row failing the schema beside a valid one: main returned.
C10_Witness ==
    /\ pc = "done"
    /\ custom_validation_mode = "stop"
    /\ Len(schema_errors) = 1 /\ Len(valid_records) = 1
    /\ outcome = "returned"

----------------------------------------------------------------------------
(* Claims about the connection, checked under Spec.                        *)

\* The positions of main inside its try block (lines 429-494).
StagePositions ==
    {"read_csv", "validate_format", "schema_errors", "load_raw", "dedup_create",
     "dedup_loop", "custom_loop", "save_custom", "create_views", "create_tables",
     "export", "summary"}

\* The ways main ends after line 427: what it ended with, and what it caught.
EndingsAfterConnect ==
    {<<"completed", <<>> >>, <<"returned", <<>> >>} \cup
    {<<"caught", <<e, w>> >> :
        e \in {"ValueError", "FileNotFoundError", "Exception"},
        w \in {"source", "load_raw_table", "birthday_on", "hired_on"}}

\* main can take a step. At validate_format the step is ValidateFormat, which
\* has no guard but the position.
MainCanStep == pc = "validate_format" \/ ENABLED Next

\* C11: once main has opened the connection, main is never stuck before its
\* end, every end of main (completion, the stop-mode return after schema
\* errors, a stop-mode rule violation, a missing source file, an exception of
\* a stage) leaves the connection closed, every stage runs on the open
\* connection, and nothing at all runs once the connection is closed.
C11_ConnectionClosedAtEveryEnd ==
    /\ [](pc \in StagePositions \cup {"finally"} => conn = "open")
    /\ [](pc = "done" =>
            \/ conn = "none" /\ outcome = "propagated"
            \/ conn = "closed" /\ <<outcome, raised>> \in EndingsAfterConnect)
    /\ [](conn = "closed" => pc = "done")
    /\ [](pc # "done" => MainCanStep)
    /\ [][conn = "closed" => UNCHANGED vars]_vars
    /\ [][conn # "none" /\ pc' = "done" => conn' = "closed"]_vars

\* Stop mode, a rule violated on the stage table: main caught the ValueError
\* after the raw and stage tables were built, and ended.
C11_Witness ==
    /\ pc = "done"
    /\ conn = "closed"
    /\ outcome = "caught"
    /\ raised[1] = "ValueError"
    /\ stage # <<>>

----------------------------------------------------------------------------
(* Claims about projections, checked under SpecProjections.                *)

\* A projection that fails: its aliases name a field absent from the schema,
\* or the engine rejects its creation.
ProjectionFails(p, schema) ==
    /\ p.type \in {"view", "table"}
    /\ p.query # ""
    /\ ~AliasesOK(p, schema) \/ ~p.engine_ok

\* The declared list without its failing projections.
OtherProjections(ps, schema) ==
    Filter(ps, {i \in 1..Len(ps) : ~ProjectionFails(ps[i], schema)})

\* The relations both projection steps build from nothing.
BuiltFrom(ps, schema) == CreateTablesOver(ps, schema, CreateViewsOver(ps, schema, {}))

NamesOf(ps) == {ps[i].name : i \in 1..Len(ps)}

\* C12: a projection that fails is not created and no exception leaves the
\* projection steps; the relations built, the names exported and the summary
\* entries of all the other projections are those of a run in which the failing
\* projections are not declared, and every other projection with a query is
\* built.
C12_FailingProjectionFailsAlone ==
    LET schema == config.schema
        others == OtherProjections(projections, schema)
        asIf   == BuiltFrom(others, schema)
    IN /\ raised = <<>>
       /\ pc \in {"create_views", "create_tables", "export", "summary", "finally", "done"}
       /\ pc = "done" => outcome = "completed"
       /\ pc = "create_tables" => relations = CreateViewsOver(others, schema, {})
       /\ pc \in {"export", "summary", "finally", "done"} =>
             /\ relations = asIf
             /\ \A i \in 1..Len(projections) :
                   IF ProjectionFails(projections[i], schema)
                   THEN projections[i].name \notin relations
                   ELSE projections[i].query # "" => projections[i].name \in relations
       /\ pc \in {"summary", "finally", "done"} =>
             /\ exported = ExportedNames(others, asIf)
             /\ \A i \in 1..Len(projections) :
                   projections[i].name \in exported <=>
                       /\ ~ProjectionFails(projections[i], schema)
                       /\ projections[i].query # ""
       /\ pc \in {"finally", "done"} =>
             /\ DOMAIN summary = NamesOf(projections)
             /\ \A n \in NamesOf(others) :
                   summary[n] = ProjectionSummary(others, asIf)[n]
             /\ \A i \in 1..Len(projections) :
                   ProjectionFails(projections[i], schema) =>
                       summary[projections[i].name].rows = "Error"

\* A view whose aliases name the absent field "zz", declared before a table
\* that is built, exported and counted.
C12_Witness ==
    /\ pc = "done"
    /\ Len(projections) = 2
    /\ projections[1].type = "view" /\ projections[1].query # ""
    /\ projections[1].aliases = {"zz"} /\ projections[1].engine_ok
    /\ projections[2].type = "table"
    /\ relations = {projections[2].name}
    /\ exported = {projections[2].name}
    /\ summary[projections[2].name].rows = "rows"
    /\ summary[projections[1].name].rows = "Error"

----------------------------------------------------------------------------
(* Claims about the removed-rows report, checked under SpecDedup.          *)

Policies == {"first", "last", "exclude_all"}

\* The entries a pass appends to a report.
Appended(before, after) == SubSeq(after, Len(before) + 1, Len(after))

\* A fetched row without the window column rn.
WithoutRn(row) == [f \in DOMAIN row \ {"rn"} |-> row[f]]

\* The contents, in row order, of the rows of a table that a pass deletes.
DeletedData(before, after) ==
    LET gone == Filter(before, {i \in 1..Len(before) :
                                  before[i].rowid \notin Rowids(after)})
    IN [i \in 1..Len(gone) |-> gone[i].data]

\* The index labels of the frame handed to remove_composite_duplicates, which
\* holds the rows of the raw table.
InputLabels == Labels(MkFrame([i \in 1..Len(raw) |-> raw[i].data]))

\* C13: in every pass of either function, under first, last and exclude_all,
\* the rows appended to the removed-rows report are exactly the rows the pass
\* deletes; and when the loop over the keys has ended, every input row is in
\* the returned dataset or in the report, and in one of them only.
C13_ReportIsWhatIsDeleted ==
    /\ [][/\ (SqlPassStep /\ duplicate_resolution \in Policies) =>
               LET new == Appended(duplicate_rows, duplicate_rows')
               IN [i \in 1..Len(new) |-> WithoutRn(new[i])] = DeletedData(stage, stage')
          /\ (RcdPassStep /\ duplicate_resolution \in Policies) =>
               LET new == Appended(removed_rows, removed_rows')
               IN /\ Labels(new) = Labels(rcd_df) \ Labels(rcd_df')
                  /\ Len(new) = Cardinality(Labels(new))
         ]_vars
    /\ []((key_i = Len(unique_composite) /\ pc = "dedup_loop"
             /\ duplicate_resolution \in Policies) =>
            Len(stage) + Len(duplicate_rows) = Len(raw))
    /\ []((rcd_pc = "returned" /\ duplicate_resolution \in Policies) =>
            /\ Labels(rcd_df) \cup Labels(removed_rows) = InputLabels
            /\ Labels(rcd_df) \cap Labels(removed_rows) = {}
            /\ Len(removed_rows) = Cardinality(Labels(removed_rows)))

\* What of C13 the code does: the SQL function reports the rows it deletes
\* under every policy and the pandas function under exclude_all; under first
\* and last the pandas function reports the rows that the opposite policy
\* would remove.
C13_AsCoded ==
    [][/\ (SqlPassStep /\ duplicate_resolution \in Policies) =>
            LET new == Appended(duplicate_rows, duplicate_rows')
            IN [i \in 1..Len(new) |-> WithoutRn(new[i])] = DeletedData(stage, stage')
       /\ (RcdPassStep /\ duplicate_resolution = "exclude_all") =>
            Labels(Appended(removed_rows, removed_rows')) =
                Labels(rcd_df) \ Labels(rcd_df')
       /\ (RcdPassStep /\ duplicate_resolution \in {"first", "last"}) =>
            LET key == unique_composite[rcd_i + 1]
                opposite == IF duplicate_resolution = "first" THEN "last" ELSE "first"
            IN Labels(Appended(removed_rows, removed_rows')) =
                   Labels(rcd_df) \ Labels(RcdKept(rcd_df, key, opposite))
      ]_vars

====
